---------------------------- MODULE Spec2Model ----------------------------
(***************************************************************************)
(* Model of agent_as_mcp_tool.py: the meal record normalizer               *)
(* (_clean_meal_data), the two lookup tools (get_random_meal,              *)
(* get_meal_by_name) and the logging middleware wrapped around every tool  *)
(* invocation.                                                             *)
(*                                                                         *)
(* Python values are records tagged by "kind".  A Python str is a sequence *)
(* of chunks (TLA+ strings); text that the code trims is written one       *)
(* character per chunk so that str.strip() is computed, not assumed.       *)
(***************************************************************************)
EXTENDS Integers, Sequences, FiniteSets, TLC

VARIABLES
    pc,          \* position of the current tool invocation
    function,    \* context.function.name
    meal_name,   \* argument of get_meal_by_name
    mwpc,        \* index of the next statement of the middleware body
    log,         \* lines printed by the middleware
    nextCalls,   \* how many times next(context) was awaited
    toolState,   \* "not_called", "running", "returned" or "raised"
    url,         \* URL the HTTP request was made for
    response,    \* requests.Response of the outbound call
    parsed,      \* whether response.json() was attempted
    data,        \* value of response.json()
    result,      \* context.result, the tool's return value
    raised,      \* exception leaving the middleware
    meal,        \* argument of a direct _clean_meal_data call
    cleaned      \* outcome of that call

vars == <<pc, function, meal_name, mwpc, log, nextCalls, toolState, url,
          response, parsed, data, result, raised, meal, cleaned>>

---------------------------------------------------------------------------
\* Python values

None == [kind |-> "none"]

Str(s) == [kind |-> "str", s |-> s]

Num(n) == [kind |-> "num", n |-> n]

List(items) == [kind |-> "list", items |-> items]

Dict(map) == [kind |-> "dict", map |-> map]

EmptyMap == [k \in {} |-> None]

EmptyDict == Dict(EmptyMap)

\* bool(v): None, "", 0, [] and {} are falsy
Truthy(v) ==
    CASE v.kind = "none" -> FALSE
      [] v.kind = "str"  -> v.s # <<>>
      [] v.kind = "num"  -> v.n # 0
      [] v.kind = "list" -> v.items # <<>>
      [] v.kind = "dict" -> DOMAIN v.map # {}
      [] OTHER           -> TRUE

\* dict.get(key): the value, or None when the key is missing
PyGet(d, key) == IF key \in DOMAIN d.map THEN d.map[key] ELSE None

NoExc == [cls |-> "none", msg |-> <<>>]

Exc(cls, msg) == [cls |-> cls, msg |-> <<msg>>]

Returned(v) == [raised |-> FALSE, exc |-> NoExc, value |-> v]

Raised(e) == [raised |-> TRUE, exc |-> e, value |-> None]

---------------------------------------------------------------------------
\* str.strip()

Whitespace == {" "}

RECURSIVE LStrip(_)
LStrip(s) ==
    IF s # <<>> /\ Head(s) \in Whitespace THEN LStrip(Tail(s)) ELSE s

RECURSIVE RStrip(_)
RStrip(s) ==
    IF s # <<>> /\ s[Len(s)] \in Whitespace
    THEN RStrip(SubSeq(s, 1, Len(s) - 1))
    ELSE s

Strip(s) == RStrip(LStrip(s))

---------------------------------------------------------------------------
\* _clean_meal_data

RangeStart == 1

RangeStop == 21

Key(name) == <<name, 0>>

IngredientKey(i) == <<"strIngredient", i>>

MeasureKey(i) == <<"strMeasure", i>>

\* variant: the test is only `if ing`, without the strip
KeepIngredient_NoStrip(ing) == Truthy(ing)

\* if ing and ing.strip()
KeepIngredient(ing) == Truthy(ing) /\ Strip(ing.s) # <<>>

\* f"{measure.strip()} {ing.strip()}".strip()
JoinEntry(measure, ing) == Str(Strip(Strip(measure.s) \o <<" ">> \o Strip(ing.s)))

\* for i in range(1, 21): ... ingredients.append(...)
RECURSIVE IngredientLoop(_, _, _)
IngredientLoop(m, i, ingredients) ==
    IF i >= RangeStop THEN Returned(List(ingredients))
    ELSE LET ing     == PyGet(m, IngredientKey(i))
             measure == PyGet(m, MeasureKey(i))
         IN  IF KeepIngredient(ing)
             THEN IF measure.kind # "str"
                  THEN Raised(Exc("AttributeError",
                                  "'NoneType' object has no attribute 'strip'"))
                  ELSE IngredientLoop(m, i + 1,
                                      Append(ingredients, JoinEntry(measure, ing)))
             ELSE IngredientLoop(m, i + 1, ingredients)

\* the dict literal returned at the end of _clean_meal_data
CleanRecord(m, ingredients) ==
    Dict([id           |-> PyGet(m, Key("idMeal")),
          name         |-> PyGet(m, Key("strMeal")),
          category     |-> PyGet(m, Key("strCategory")),
          area         |-> PyGet(m, Key("strArea")),
          instructions |-> PyGet(m, Key("strInstructions")),
          ingredients  |-> ingredients,
          tags         |-> PyGet(m, Key("strTags")),
          youtube_link |-> PyGet(m, Key("strYoutube"))])

\* variant: no early return for a falsy argument
EarlyReturn_Never(m) == FALSE

\* if not meal: return {}
EarlyReturn(m) == ~Truthy(m)

_clean_meal_data(m) ==
    IF EarlyReturn(m) THEN Returned(EmptyDict)
    ELSE IF m.kind # "dict"
         THEN Raised(Exc("AttributeError", "object has no attribute 'get'"))
         ELSE LET loop == IngredientLoop(m, RangeStart, <<>>)
              IN  IF loop.raised THEN loop
                  ELSE Returned(CleanRecord(m, loop.value))

---------------------------------------------------------------------------
\* Raw meal records handed to _clean_meal_data

Absent == [kind |-> "absent"]

MaxPopulated == 2

PopSlots == {1, 2, 20}

Penne == <<"p", "e", "n", "n", "e">>

OneLb == <<"1", " ", "l", "b">>

IngVals == {Absent, None, Str(<<>>), Str(<<" ">>), Str(Penne), Str(<<" ", "b", " ">>)}

MeasVals == {Absent, None, Str(<<>>), Str(OneLb), Str(<<" ", "2", " ">>)}

\* the part of a dict that holds key |-> v, nothing when the key is absent
Entry(key, v) == IF v = Absent THEN EmptyMap ELSE key :> v

SlotMap(i, ing, measure) ==
    Entry(IngredientKey(i), ing) @@ Entry(MeasureKey(i), measure)

NamedSamples ==
    { EmptyMap,
      Key("idMeal") :> Str(<<"52771">>) @@ Key("strMeal") :> Str(<<"Arrabiata">>),
      Key("idMeal") :> None @@ Key("strMeal") :> Str(<<" Soup ">>)
        @@ Key("strCategory") :> Str(<<>>) @@ Key("strArea") :> Str(<<"Italian">>)
        @@ Key("strInstructions") :> Str(<<"Boil.">>) @@ Key("strTags") :> None
        @@ Key("strYoutube") :> Str(<<"https://youtu.be/x">>) }

RECURSIVE MealMaps(_)
MealMaps(n) ==
    IF n = 0 THEN NamedSamples
    ELSE LET prev == MealMaps(n - 1)
         IN  prev \cup { SlotMap(i, ing, measure) @@ m :
                           i \in PopSlots, ing \in IngVals,
                           measure \in MeasVals, m \in prev }

RawMeals == {None} \cup { Dict(m) : m \in MealMaps(MaxPopulated) }

NotJson == [kind |-> "not_json"]

NoResponse == [kind |-> "none", status |-> 0, body |-> NotJson]

NoCall == Returned(None)

\* every variable of the tool-invocation machine at rest
Idle ==
    /\ function = "" /\ meal_name = <<>> /\ mwpc = 0 /\ log = <<>>
    /\ nextCalls = 0 /\ toolState = "not_called" /\ url = <<>>
    /\ response = NoResponse /\ parsed = FALSE /\ data = None
    /\ result = None /\ raised = NoExc

InitNormalize ==
    /\ pc = "norm_call"
    /\ meal \in RawMeals
    /\ cleaned = NoCall
    /\ Idle

Normalize ==
    /\ pc = "norm_call"
    /\ cleaned' = _clean_meal_data(meal)
    /\ pc' = "norm_done"
    /\ UNCHANGED <<function, meal_name, mwpc, log, nextCalls, toolState, url,
                   response, parsed, data, result, raised, meal>>

NextNormalize == Normalize

SpecNormalize == InitNormalize /\ [][NextNormalize]_vars

---------------------------------------------------------------------------
\* The outbound HTTP call and what it may answer

ConnectionFailed == [kind |-> "connection_error", status |-> 0, body |-> NotJson]

Response(status, body) == [kind |-> "response", status |-> status, body |-> body]

MaxMeals == 5

Arrabiata ==
    Dict(Key("idMeal") :> Str(<<"52771">>) @@ Key("strMeal") :> Str(<<"Arrabiata">>)
         @@ SlotMap(1, Str(Penne), Str(OneLb)) @@ SlotMap(2, Str(<<>>), Str(<<>>)))

Carbonara ==
    Dict(Key("idMeal") :> Str(<<"52982">>) @@ Key("strMeal") :> Str(<<"Carbonara">>)
         @@ Key("strYoutube") :> Str(<<"https://youtu.be/y">>)
         @@ SlotMap(1, Str(<<"e", "g", "g">>), Str(<<" ">>))
         @@ SlotMap(2, None, None))

\* a record whose first ingredient has no measure
NoMeasure ==
    Dict(Key("idMeal") :> Str(<<"53000">>) @@ Key("strMeal") :> Str(<<"Toast">>)
         @@ SlotMap(1, Str(<<"b", "r", "e", "a", "d">>), Absent))

SampleMeals == {EmptyDict, Arrabiata, Carbonara, NoMeasure}

RECURSIVE SeqsUpTo(_, _)
SeqsUpTo(S, n) ==
    IF n = 0 THEN {<<>>}
    ELSE LET prev == SeqsUpTo(S, n - 1)
         IN  prev \cup {Append(q, x) : q \in prev, x \in S}

Meals(v) == Dict(Key("meals") :> v)

\* JSON documents the API may answer with
JsonBodies ==
    {None, Num(7), Str(<<"o", "k">>), List(<<Arrabiata>>), EmptyDict,
     Dict(Key("error") :> Str(<<"limit">>)),
     Meals(None), Meals(Str(<<>>)), Meals(Num(0)), Meals(EmptyDict),
     Meals(Str(<<"x">>)), Meals(Num(7)), Meals(Arrabiata),
     Meals(List(<<None>>)), Meals(List(<<Str(<<"x">>), Arrabiata>>))}
    \cup {Meals(List(q)) : q \in SeqsUpTo(SampleMeals, MaxMeals)}

Bodies == {NotJson} \cup JsonBodies

Statuses == {200, 300, 404, 500}

\* answers with a status other than 200 carry one of these bodies
OtherBodies == {NotJson, EmptyDict, Meals(List(<<Arrabiata, Carbonara>>))}

HttpOutcomes ==
    {ConnectionFailed}
    \cup {Response(200, b) : b \in Bodies}
    \cup {Response(st, b) : st \in Statuses \ {200}, b \in OtherBodies}

Queries ==
    { <<"p", "i", "e">>,
      <<"f", "i", "s", "h", " ", "p", "i", "e">>,
      <<"a", "&", "i", "=", "1">> }

\* requests.get prepares the URL it is given: characters that may not occur
\* in a URL are percent-encoded, reserved characters are left as written
RECURSIVE Requote(_)
Requote(u) ==
    IF u = <<>> THEN <<>>
    ELSE <<IF Head(u) = " " THEN "%20" ELSE Head(u)>> \o Requote(Tail(u))

RandomUrl == <<"https://www.themealdb.com/api/json/v1/1/random.php">>

SearchPrefix == "https://www.themealdb.com/api/json/v1/1/search.php?s="

\* f"https://www.themealdb.com/api/json/v1/1/search.php?s={meal_name}"
SearchUrl(q) == <<SearchPrefix>> \o q

\* variant: only server errors are rejected
RaisesForStatus_ServerOnly(status) == 500 <= status /\ status < 600

\* Response.raise_for_status(): raises for client and server errors
RaisesForStatus(status) == 400 <= status /\ status < 600

\* json.dumps(value, indent=...), indent 0 standing for no indent
Dumps(v, indent) == [kind |-> "json_str", json |-> v, indent |-> indent]

ErrorDict(msg) == Dict([error |-> Str(msg)])

RandomPrefix == "Failed to fetch random meal: "

SearchFailPrefix == "Failed to search for meal: "

\* {"error": "No meal found."}
EmptyRandomResult == Dumps(ErrorDict(<<"No meal found.">>), 0)

\* variant: the search tool reports an empty result like the random tool
EmptySearchResult_AsError(q) == Dumps(ErrorDict(<<"No meal found.">>), 0)

\* {"status": "not_found", "message": f"No meals found with the name '{meal_name}'."}
EmptySearchResult(q) ==
    Dumps(Dict([status  |-> Str(<<"not_found">>),
                message |-> Str(<<"No meals found with the name '">> \o q \o <<"'.">>)]),
          0)

\* variant: except requests.RequestException as e
Catches_RequestsOnly(e) ==
    e.cls \in {"ConnectionError", "HTTPError", "JSONDecodeError"}

\* except Exception as e: every exception raised in the try body is caught
Catches(e) == TRUE

\* value[0]
Subscript0(v) ==
    CASE v.kind = "list" ->
            IF v.items = <<>> THEN Raised(Exc("IndexError", "list index out of range"))
            ELSE Returned(v.items[1])
      [] v.kind = "str"  ->
            IF v.s = <<>> THEN Raised(Exc("IndexError", "string index out of range"))
            ELSE Returned(Str(<<v.s[1]>>))
      [] v.kind = "dict" -> Raised(Exc("KeyError", "0"))
      [] OTHER           -> Raised(Exc("TypeError", "object is not subscriptable"))

MaxResults == 3

Min(a, b) == IF a <= b THEN a ELSE b

\* value[:3], as the sequence the comprehension iterates over
SliceFirst(v) ==
    CASE v.kind = "list" -> Returned(SubSeq(v.items, 1, Min(Len(v.items), MaxResults)))
      [] v.kind = "str"  ->
            Returned([k \in 1..Min(Len(v.s), MaxResults) |-> Str(<<v.s[k]>>)])
      \* a slice is no key of a JSON object (a TypeError before Python 3.12)
      [] v.kind = "dict" -> Raised(Exc("KeyError", "slice(None, 3, None)"))
      [] OTHER           -> Raised(Exc("TypeError", "object is not subscriptable"))

\* [_clean_meal_data(m) for m in items]
RECURSIVE CleanAll(_, _)
CleanAll(items, acc) ==
    IF items = <<>> THEN Returned(List(acc))
    ELSE LET c == _clean_meal_data(Head(items))
         IN  IF c.raised THEN c ELSE CleanAll(Tail(items), Append(acc, c.value))

---------------------------------------------------------------------------
\* The tools, one action per statement of the try body

Tools == {"get_random_meal", "get_meal_by_name"}

\* return value: the tool ends and the awaited next(context) resumes
ToolReturn(v) ==
    /\ result' = v
    /\ toolState' = "returned"
    /\ pc' = "middleware"
    /\ UNCHANGED raised

\* an exception raised inside the try body reaches the except clause
ToolExcept(prefix, e) ==
    IF Catches(e)
    THEN ToolReturn(Dumps(ErrorDict(<<prefix>> \o e.msg), 0))
    ELSE /\ toolState' = "raised"
         /\ raised' = e
         /\ pc' = "next_raised"
         /\ UNCHANGED result

\* response = requests.get(url)
HttpGet(u, prefix, after) ==
    \E out \in HttpOutcomes :
        /\ url' = Requote(u)
        /\ response' = out
        /\ IF out.kind = "connection_error"
           THEN ToolExcept(prefix, Exc("ConnectionError", "Max retries exceeded"))
           ELSE pc' = after /\ UNCHANGED <<result, toolState, raised>>
        /\ UNCHANGED <<function, meal_name, mwpc, log, nextCalls, parsed, data,
                       meal, cleaned>>

\* response.raise_for_status()
RaiseForStatus(prefix, after) ==
    /\ IF RaisesForStatus(response.status)
       THEN ToolExcept(prefix, Exc("HTTPError", "Error for url"))
       ELSE pc' = after /\ UNCHANGED <<result, toolState, raised>>
    /\ UNCHANGED <<function, meal_name, mwpc, log, nextCalls, url, response,
                   parsed, data, meal, cleaned>>

\* data = response.json()
ResponseJson(prefix, after) ==
    /\ parsed' = TRUE
    /\ IF response.body = NotJson
       THEN /\ ToolExcept(prefix, Exc("JSONDecodeError", "Expecting value"))
            /\ UNCHANGED data
       ELSE /\ data' = response.body
            /\ pc' = after
            /\ UNCHANGED <<result, toolState, raised>>
    /\ UNCHANGED <<function, meal_name, mwpc, log, nextCalls, url, response,
                   meal, cleaned>>

\* if not data.get("meals"): return <empty>
CheckMeals(prefix, empty, after) ==
    /\ IF data.kind # "dict"
       THEN ToolExcept(prefix, Exc("AttributeError", "object has no attribute 'get'"))
       ELSE IF ~Truthy(PyGet(data, Key("meals")))
            THEN ToolReturn(empty)
            ELSE pc' = after /\ UNCHANGED <<result, toolState, raised>>
    /\ UNCHANGED <<function, meal_name, mwpc, log, nextCalls, url, response,
                   parsed, data, meal, cleaned>>

Random_Get ==
    /\ pc = "random_get"
    /\ HttpGet(RandomUrl, RandomPrefix, "random_status")

Random_RaiseForStatus ==
    /\ pc = "random_status"
    /\ RaiseForStatus(RandomPrefix, "random_json")

Random_Json ==
    /\ pc = "random_json"
    /\ ResponseJson(RandomPrefix, "random_meals")

Random_CheckMeals ==
    /\ pc = "random_meals"
    /\ CheckMeals(RandomPrefix, EmptyRandomResult, "random_clean")

\* meal = _clean_meal_data(data["meals"][0]); return json.dumps(meal, indent=2)
Random_Clean ==
    /\ pc = "random_clean"
    /\ LET first == Subscript0(PyGet(data, Key("meals")))
           c     == IF first.raised THEN first ELSE _clean_meal_data(first.value)
       IN  IF c.raised THEN ToolExcept(RandomPrefix, c.exc)
           ELSE ToolReturn(Dumps(c.value, 2))
    /\ UNCHANGED <<function, meal_name, mwpc, log, nextCalls, url, response,
                   parsed, data, meal, cleaned>>

Search_Get ==
    /\ pc = "search_get"
    /\ HttpGet(SearchUrl(meal_name), SearchFailPrefix, "search_status")

Search_RaiseForStatus ==
    /\ pc = "search_status"
    /\ RaiseForStatus(SearchFailPrefix, "search_json")

Search_Json ==
    /\ pc = "search_json"
    /\ ResponseJson(SearchFailPrefix, "search_meals")

Search_CheckMeals ==
    /\ pc = "search_meals"
    /\ CheckMeals(SearchFailPrefix, EmptySearchResult(meal_name), "search_clean")

\* results = [_clean_meal_data(m) for m in data["meals"][:3]]
\* return json.dumps(results, indent=2)
Search_Clean ==
    /\ pc = "search_clean"
    /\ LET top == SliceFirst(PyGet(data, Key("meals")))
           c   == IF top.raised THEN top ELSE CleanAll(top.value, <<>>)
       IN  IF c.raised THEN ToolExcept(SearchFailPrefix, c.exc)
           ELSE ToolReturn(Dumps(c.value, 2))
    /\ UNCHANGED <<function, meal_name, mwpc, log, nextCalls, url, response,
                   parsed, data, meal, cleaned>>

get_random_meal ==
    \/ Random_Get \/ Random_RaiseForStatus \/ Random_Json
    \/ Random_CheckMeals \/ Random_Clean

get_meal_by_name ==
    \/ Search_Get \/ Search_RaiseForStatus \/ Search_Json
    \/ Search_CheckMeals \/ Search_Clean

---------------------------------------------------------------------------
\* The logging middleware and the framework's next(context)

\* variant: next(context) is awaited a second time
logging_function_middleware_NextTwice ==
    <<"print_call", "await_next", "await_next", "print_result">>

\* the body of logging_function_middleware, statement by statement
logging_function_middleware == <<"print_call", "await_next", "print_result">>

Statement ==
    IF mwpc \in 1..Len(logging_function_middleware)
    THEN logging_function_middleware[mwpc] ELSE "return"

CallLine(name) == [line |-> "Calling function: ", value |-> Str(<<name>>)]

ResultLine(v) == [line |-> "Function result: ", value |-> v]

\* failures of the framework's own next(context), before the tool runs
FrameworkErrors ==
    {Exc("ValidationError", "invalid arguments"), Exc("CancelledError", "cancelled")}

\* the agent invokes a tool through the middleware pipeline
Invoke ==
    /\ pc = "idle"
    /\ \E f \in Tools :
        /\ function' = f
        /\ meal_name' \in (IF f = "get_meal_by_name" THEN Queries ELSE {<<>>})
    /\ pc' = "middleware"
    /\ mwpc' = 1
    /\ UNCHANGED <<log, nextCalls, toolState, url, response, parsed, data,
                   result, raised, meal, cleaned>>

\* print(f"Calling function: {context.function.name}")
MwPrintCall ==
    /\ pc = "middleware" /\ Statement = "print_call"
    /\ log' = Append(log, CallLine(function))
    /\ mwpc' = mwpc + 1
    /\ UNCHANGED <<pc, function, meal_name, nextCalls, toolState, url, response,
                   parsed, data, result, raised, meal, cleaned>>

\* await next(context)
MwAwaitNext ==
    /\ pc = "middleware" /\ Statement = "await_next"
    /\ nextCalls' = nextCalls + 1
    /\ mwpc' = mwpc + 1
    /\ pc' = "next"
    /\ UNCHANGED <<function, meal_name, log, toolState, url, response, parsed,
                   data, result, raised, meal, cleaned>>

\* next(context) calls the tool function
NextDispatch ==
    /\ pc = "next"
    /\ toolState' = "running"
    /\ pc' = IF function = "get_random_meal" THEN "random_get" ELSE "search_get"
    /\ UNCHANGED <<function, meal_name, mwpc, log, nextCalls, url, response,
                   parsed, data, result, raised, meal, cleaned>>

\* next(context) raises without reaching the tool
NextRaises ==
    /\ pc = "next"
    /\ raised' \in FrameworkErrors
    /\ pc' = "next_raised"
    /\ UNCHANGED <<function, meal_name, mwpc, log, nextCalls, toolState, url,
                   response, parsed, data, result, meal, cleaned>>

\* no try/except around the await: the exception leaves the middleware
MwPropagate ==
    /\ pc = "next_raised"
    /\ pc' = "propagated"
    /\ UNCHANGED <<function, meal_name, mwpc, log, nextCalls, toolState, url,
                   response, parsed, data, result, raised, meal, cleaned>>

\* print(f"Function result: {context.result}")
MwPrintResult ==
    /\ pc = "middleware" /\ Statement = "print_result"
    /\ log' = Append(log, ResultLine(result))
    /\ mwpc' = mwpc + 1
    /\ UNCHANGED <<pc, function, meal_name, nextCalls, toolState, url, response,
                   parsed, data, result, raised, meal, cleaned>>

\* the middleware body ends
MwReturn ==
    /\ pc = "middleware" /\ Statement = "return"
    /\ pc' = "done"
    /\ UNCHANGED <<function, meal_name, mwpc, log, nextCalls, toolState, url,
                   response, parsed, data, result, raised, meal, cleaned>>

\* the invocation is over; nothing of it is kept for the next one
Finish ==
    /\ pc \in {"done", "propagated"}
    /\ pc' = "idle"
    /\ function' = "" /\ meal_name' = <<>> /\ mwpc' = 0 /\ log' = <<>>
    /\ nextCalls' = 0 /\ toolState' = "not_called" /\ url' = <<>>
    /\ response' = NoResponse /\ parsed' = FALSE /\ data' = None
    /\ result' = None /\ raised' = NoExc
    /\ UNCHANGED <<meal, cleaned>>

Init ==
    /\ pc = "idle"
    /\ Idle
    /\ meal = None
    /\ cleaned = NoCall

Next ==
    \/ Invoke
    \/ MwPrintCall
    \/ MwAwaitNext
    \/ NextDispatch
    \/ NextRaises
    \/ MwPropagate
    \/ get_random_meal
    \/ get_meal_by_name
    \/ MwPrintResult
    \/ MwReturn
    \/ Finish

Spec == Init /\ [][Next]_vars

---------------------------------------------------------------------------
\* Properties of _clean_meal_data, stated over SpecNormalize

Indices == 1..20

\* text between the first and the last non-blank character
Trimmed(s) ==
    LET solid == {k \in 1..Len(s) : s[k] # " "}
    IN  IF solid = {} THEN <<>>
        ELSE SubSeq(s, CHOOSE k \in solid : \A j \in solid : k <= j,
                       CHOOSE k \in solid : \A j \in solid : j <= k)

IngredientOf(m, i) ==
    IF m.kind = "dict" /\ IngredientKey(i) \in DOMAIN m.map
    THEN m.map[IngredientKey(i)] ELSE Absent

MeasureOf(m, i) ==
    IF m.kind = "dict" /\ MeasureKey(i) \in DOMAIN m.map
    THEN m.map[MeasureKey(i)] ELSE Absent

\* indices whose ingredient is present and non-blank after trimming
NonBlank(m) ==
    {i \in Indices : IngredientOf(m, i).kind = "str"
                     /\ Trimmed(IngredientOf(m, i).s) # <<>>}

\* position in the ingredients sequence of the entry index i gives rise to
Rank(m, i) == Cardinality({j \in NonBlank(m) : j <= i})

HasIngredients(out) ==
    out.kind = "dict" /\ "ingredients" \in DOMAIN out.map

IngredientsOf(out) == out.map.ingredients.items

OptionalFields ==
    {"id", "name", "category", "area", "instructions", "tags", "youtube_link"}

\* C2: for every raw meal, _clean_meal_data does not raise and the
\* ingredients sequence it returns has at most 20 entries.
C2_NeverRaises ==
    pc = "norm_done" =>
        /\ ~cleaned.raised
        /\ HasIngredients(cleaned.value) => Len(IngredientsOf(cleaned.value)) <= 20

\* C3: every index whose ingredient is non-blank while its measure is
\* absent yields the trimmed ingredient alone, with no leading space.
C3_AbsentMeasureEntry ==
    pc = "norm_done" =>
        \A i \in NonBlank(meal) :
            MeasureOf(meal, i) = Absent =>
                /\ ~cleaned.raised
                /\ HasIngredients(cleaned.value)
                /\ Rank(meal, i) <= Len(IngredientsOf(cleaned.value))
                /\ IngredientsOf(cleaned.value)[Rank(meal, i)]
                       = Str(Trimmed(IngredientOf(meal, i).s))

IsEmptyInput(m) == m = None \/ m = EmptyDict

\* C8 as stated: for an empty or absent raw meal the result has no optional
\* field and carries ingredients = [].
C8_EmptyHasIngredients ==
    (pc = "norm_done" /\ IsEmptyInput(meal)) =>
        /\ ~cleaned.raised
        /\ OptionalFields \cap DOMAIN cleaned.value.map = {}
        /\ HasIngredients(cleaned.value)
        /\ IngredientsOf(cleaned.value) = <<>>

\* C8 amended: for an empty or absent raw meal the result is the empty
\* mapping {}: no optional field and no ingredients field either.
C8_EmptyIsEmptyDict ==
    (pc = "norm_done" /\ IsEmptyInput(meal)) =>
        /\ ~cleaned.raised
        /\ cleaned.value.kind = "dict"
        /\ DOMAIN cleaned.value.map = {}

C8_Witness ==
    pc = "norm_done" /\ meal = EmptyDict /\ cleaned = Returned(EmptyDict)

\* C9: whenever _clean_meal_data returns, the ingredients sequence has one
\* entry per index with a non-blank ingredient, in increasing index order,
\* each entry being the trimmed "<measure> <ingredient>" of its index;
\* blank or missing ingredients add nothing whatever their measure is.
C9_OrderAndSkip ==
    (pc = "norm_done" /\ ~cleaned.raised) =>
        IF HasIngredients(cleaned.value)
        THEN LET entries == IngredientsOf(cleaned.value)
             IN  /\ Len(entries) = Cardinality(NonBlank(meal))
                 /\ \A i \in NonBlank(meal) :
                        entries[Rank(meal, i)] =
                            Str(Trimmed(Trimmed(MeasureOf(meal, i).s) \o <<" ">>
                                        \o Trimmed(IngredientOf(meal, i).s)))
        ELSE NonBlank(meal) = {}

\* penne with "1 lb" at index 1, at index 2 a measure with no ingredient
C9_Witness ==
    /\ pc = "norm_done" /\ ~cleaned.raised
    /\ IngredientOf(meal, 1) = Str(Penne) /\ MeasureOf(meal, 1) = Str(OneLb)
    /\ IngredientOf(meal, 2) = Absent /\ MeasureOf(meal, 2) = Str(OneLb)
    /\ IngredientsOf(cleaned.value) =
           << Str(<<"1", " ", "l", "b", " ", "p", "e", "n", "n", "e">>) >>

---------------------------------------------------------------------------
\* Properties of the tools and the middleware, stated over Spec

Is2xx(status) == 200 <= status /\ status < 300

IsEnvelope(r) == r.kind = "json_str" /\ r.json.kind \in {"dict", "list"}

\* an error envelope whose message starts with the given text
ErrorStartingWith(r, prefix) ==
    /\ r.kind = "json_str"
    /\ r.json.kind = "dict"
    /\ DOMAIN r.json.map = {"error"}
    /\ r.json.map.error.kind = "str"
    /\ r.json.map.error.s # <<>>
    /\ r.json.map.error.s[1] = prefix

FailPrefix ==
    IF function = "get_random_meal"
    THEN "Failed to fetch random meal: " ELSE "Failed to search for meal: "

\* C1: whatever the HTTP call answers, a tool never lets an exception out
\* and what it returns is a serialized envelope.
C1_NoEscape ==
    /\ toolState # "raised"
    /\ raised # NoExc => raised \in FrameworkErrors
    /\ toolState = "returned" => IsEnvelope(result)

\* the search tool turned the normalizer's AttributeError into an envelope
C1_Witness ==
    /\ toolState = "returned"
    /\ function = "get_meal_by_name"
    /\ response = Response(200, Meals(List(<<Arrabiata, NoMeasure>>)))
    /\ result = Dumps(ErrorDict(<<"Failed to search for meal: ",
                                  "'NoneType' object has no attribute 'strip'">>), 0)

ReservedChars == {" ", "&", "=", "#", "?", "+", "/"}

\* C4: in the URL requested by get_meal_by_name no reserved character of
\* the query appears unescaped after "?s=".
C4_QueryEncoded ==
    (function = "get_meal_by_name" /\ url # <<>>) =>
        /\ url[1] = "https://www.themealdb.com/api/json/v1/1/search.php?s="
        /\ \A k \in 2..Len(url) : url[k] \notin ReservedChars

\* a parsed 2xx answer whose meals field is missing, null or []
EmptyResultSet ==
    /\ response.kind = "response" /\ Is2xx(response.status)
    /\ parsed
    /\ data.kind = "dict"
    /\ \/ Key("meals") \notin DOMAIN data.map
       \/ data.map[Key("meals")] \in {None, List(<<>>)}

\* C5: on an empty result set the search tool answers not_found and never
\* an error, the random tool answers the error "No meal found." and never
\* not_found.
C5_EmptyResultAsymmetry ==
    (toolState = "returned" /\ EmptyResultSet) =>
        IF function = "get_meal_by_name"
        THEN result = Dumps(Dict([status  |-> Str(<<"not_found">>),
                                  message |-> Str(<<"No meals found with the name '">>
                                                  \o meal_name \o <<"'.">>)]), 0)
        ELSE result = Dumps(Dict([error |-> Str(<<"No meal found.">>)]), 0)

C5_Witness ==
    /\ toolState = "returned" /\ EmptyResultSet
    /\ function = "get_meal_by_name"
    /\ data = Meals(None)
    /\ meal_name = <<"f", "i", "s", "h", " ", "p", "i", "e">>
    /\ "status" \in DOMAIN result.json.map

\* a parsed 2xx answer whose meals field lists at least one record
HasMatches ==
    /\ response.kind = "response" /\ Is2xx(response.status)
    /\ parsed
    /\ data.kind = "dict"
    /\ Key("meals") \in DOMAIN data.map
    /\ data.map[Key("meals")].kind = "list"
    /\ data.map[Key("meals")].items # <<>>
    /\ \A k \in DOMAIN data.map[Key("meals")].items :
           data.map[Key("meals")].items[k].kind = "dict"

\* C6: with n >= 1 matching records the search tool returns a list of
\* min(n, 3) entries, entry k being the normalization of record k.
C6_FirstThreeInOrder ==
    (toolState = "returned" /\ function = "get_meal_by_name" /\ HasMatches) =>
        LET records == data.map[Key("meals")].items
            count   == IF Len(records) <= 3 THEN Len(records) ELSE 3
        IN  /\ result.kind = "json_str"
            /\ result.json.kind = "list"
            /\ Len(result.json.items) = count
            /\ \A k \in 1..count :
                   /\ ~_clean_meal_data(records[k]).raised
                   /\ result.json.items[k] = _clean_meal_data(records[k]).value

\* what both tools do with an answer the status check rejects
RejectedUnparsed ==
    /\ ~parsed
    /\ data = None
    /\ toolState = "returned" => ErrorStartingWith(result, FailPrefix)

\* C7 as stated: any status outside 2xx is rejected before the body is
\* parsed and ends in a "Failed to ..." error envelope.
C7_NonSuccessRejected ==
    /\ pc \in {"random_status", "search_status"} => ~parsed
    /\ (response.kind = "response" /\ ~Is2xx(response.status)) => RejectedUnparsed

\* C7 amended: any 4xx or 5xx status is rejected before the body is parsed
\* and ends in a "Failed to ..." error envelope.
C7_ClientServerErrorRejected ==
    /\ pc \in {"random_status", "search_status"} => ~parsed
    /\ (response.kind = "response"
        /\ 400 <= response.status /\ response.status < 600) => RejectedUnparsed

C7_Witness ==
    /\ toolState = "returned"
    /\ response = Response(500, Meals(List(<<Arrabiata, Carbonara>>)))
    /\ ~parsed
    /\ ErrorStartingWith(result, FailPrefix)

ResultLogged == \E k \in DOMAIN log : log[k].line = "Function result: "

C10_Order ==
    /\ nextCalls <= 1
    /\ toolState # "not_called" => nextCalls = 1
    /\ nextCalls = 1 => (log # <<>> /\ log[1] = CallLine(function))
    /\ ResultLogged =>
           /\ toolState = "returned"
           /\ log = <<CallLine(function), ResultLine(result)>>
    /\ pc = "done" =>
           /\ nextCalls = 1
           /\ ResultLogged
           /\ raised = NoExc
    /\ pc = "propagated" =>
           /\ nextCalls = 1
           /\ raised # NoExc
           /\ log = <<CallLine(function)>>

\* C10: the middleware logs the tool name before awaiting next, awaits next
\* exactly once, logs the result only after next returned, and an exception
\* raised by next leaves the middleware as it was raised.
C10_PassThrough ==
    /\ []C10_Order
    /\ [][pc = "next_raised" => (pc' = "propagated" /\ raised' = raised)]_vars

C10_Witness ==
    /\ pc = "done"
    /\ nextCalls = 1
    /\ log = <<CallLine("get_random_meal"), ResultLine(result)>>
    /\ IsEnvelope(result)

============================================================================
